---- MODULE Spec2Model ----
(***************************************************************************)
(* A model of the rhinoscript binding layer (scripts/rhinoscript/curve.py  *)
(* and utility.py): loosely typed script values, the coercion helpers of   *)
(* utility.py, the host document object table, and one action per public   *)
(* function.  The geometry kernel and the document table are the host's:   *)
(* their answers are nondeterministic choices (\E) inside each action.     *)
(***************************************************************************)
EXTENDS Integers, Sequences, FiniteSets, TLC

(***************************************************************************)
(* Bounds of the model.                                                    *)
(***************************************************************************)
\* number of script calls in one session
MaxCalls == 1
\* most curves one kernel call (Split, DuplicateSegments, JoinCurves) yields
MaxPieces == 2
\* deepest nesting of 1-element lists/tuples around an identifier
MaxDepth == 2
\* longest list of points given to SortPoints
MaxPoints == 3

(***************************************************************************)
(* Script values.  Every value is a record of one shape:                   *)
(*   t     the type: "none" "bool" "int" "guid" "str" "list" "tuple"       *)
(*         "pt" (Point3d) "vec" (Vector3d) "plane" "line" "ptarray"        *)
(*         (System.Array[Point3d]) "geom" (a Rhino.Geometry object)        *)
(*         and "raise", which is no value: an exception on its way out     *)
(*   g     the number of a GUID (0 is System.Guid.Empty), an int's value   *)
(*   fmt   a string's text form, a geometry's kind                         *)
(*   len   a string's length in characters                                 *)
(*   items the elements of a list/tuple, the coordinates of a point        *)
(***************************************************************************)
Val(t, g, fmt, len, items) ==
    [t |-> t, g |-> g, fmt |-> fmt, len |-> len, items |-> items]

NoneV == Val("none", 0, "", 0, <<>>)
RaiseV == Val("raise", 0, "", 0, <<>>)
IntV(n) == Val("int", n, "", 0, <<>>)
BoolV(b) == Val("bool", IF b THEN 1 ELSE 0, "", 0, <<>>)
GuidV(g) == Val("guid", g, "", 0, <<>>)
GuidEmpty == GuidV(0)
ListV(items) == Val("list", 0, "", 0, items)
TupleV(items) == Val("tuple", 0, "", 0, items)
PtV(xyz) == Val("pt", 0, "", 0, xyz)
VecV(xyz) == Val("vec", 0, "", 0, xyz)
PlaneV == Val("plane", 0, "", 0, <<>>)
LineV(a, b) == Val("line", 0, "", 0, <<a, b>>)
GeomV(kind) == Val("geom", 0, kind, 0, <<>>)

\* The text forms System.Guid parses: "D" 8-4-4-4-12 hex digits (36
\* characters), "N" 32 digits, "B" the D form in braces (38).
GuidFormats == {"D", "N", "B"}
GuidStr(fmt, g) ==
    Val("str", g, fmt, CASE fmt = "D" -> 36 [] fmt = "N" -> 32 [] OTHER -> 38, <<>>)
\* A string that is no GUID text, of the given length.
JunkStr(n) == Val("str", 0, "junk", n, <<>>)
\* The string "x,y,z" of three numbers.
CsvStr(xyz) == Val("str", 0, "csv", 2 + Len(xyz), xyz)

IsSeqT(v) == v.t \in {"list", "tuple"}
IsNum(v) == v.t = "int"

(***************************************************************************)
(* utility.py: the coercion helpers.                                       *)
(***************************************************************************)
\* scriptcontext.errorhandler(): the shared error handler's sentinel.
errorhandler == NoneV

\* System.Guid(str): the GUID a text names, or FormatException.
GuidCtor(s) == IF s.fmt \in GuidFormats THEN GuidV(s.g) ELSE RaiseV

\* the shortest string coerceguid does not hand to System.Guid is 30 long
GuidStrMinLen == 30

\* coerceguid taking the first element of a list or tuple of any length
RECURSIVE coerceguidFirstOfAny(_)
coerceguidFirstOfAny(id) ==
    IF id.t = "guid" THEN id
    ELSE IF id.t = "str" /\ id.len > GuidStrMinLen /\ GuidCtor(id).t # "raise"
         THEN GuidCtor(id)
    ELSE IF IsSeqT(id) /\ Len(id.items) >= 1 THEN coerceguidFirstOfAny(id.items[1])
    ELSE NoneV

RECURSIVE coerceguid(_)
coerceguid(id) ==
    IF id.t = "guid" THEN id
    ELSE IF id.t = "str" /\ id.len > GuidStrMinLen /\ GuidCtor(id).t # "raise"
         THEN GuidCtor(id)
    ELSE IF IsSeqT(id) /\ Len(id.items) = 1 THEN coerceguid(id.items[1])
    ELSE NoneV

\* Rhino.Geometry.Point3d(x, y, z): TypeError unless all three are numbers.
Point3d(x, y, z) ==
    IF IsNum(x) /\ IsNum(y) /\ IsNum(z) THEN PtV(<<x, y, z>>) ELSE RaiseV

coerce3dpoint(point) ==
    IF point.t = "pt" THEN point
    ELSE IF IsSeqT(point)
         THEN IF /\ Len(point.items) = 3
                 /\ point.items[1].t # "list"
                 /\ point.items[1].t # "pt"
              THEN Point3d(point.items[1], point.items[2], point.items[3])
              ELSE NoneV
    ELSE IF point.t = "vec" THEN PtV(point.items)
    ELSE IF point.t = "str"
         THEN IF point.fmt = "csv" /\ Len(point.items) >= 3
              THEN Point3d(point.items[1], point.items[2], point.items[3])
              ELSE RaiseV
    ELSE NoneV

coerce3dvector(vector) ==
    IF vector.t = "vec" THEN vector
    ELSE IF IsSeqT(vector)
         THEN IF Len(vector.items) = 3 /\ vector.items[1].t # "list"
              THEN IF \A i \in 1..3 : IsNum(vector.items[i])
                   THEN VecV(vector.items) ELSE RaiseV
              ELSE NoneV
    ELSE IF vector.t = "pt" THEN VecV(vector.items)
    ELSE NoneV

\* a list comprehension over a helper: the exception of any element escapes
Collect(items) ==
    IF \E i \in 1..Len(items) : items[i].t = "raise" THEN RaiseV ELSE ListV(items)

coerce3dpointlist(points) ==
    IF points.t = "none" THEN NoneV
    ELSE IF points.t = "ptarray" THEN ListV(points.items)
    ELSE IF IsSeqT(points)
         THEN LET count == Len(points.items) IN
              IF count = 0 THEN RaiseV
              ELSE IF points.items[1].t \in {"pt", "list", "tuple"}
                   THEN Collect([i \in 1..count |-> coerce3dpoint(points.items[i])])
              ELSE IF count > 2
                   THEN Collect([i \in 1..(count \div 3) |->
                                   Point3d(points.items[3*i - 2],
                                           points.items[3*i - 1],
                                           points.items[3*i])])
              ELSE NoneV
    ELSE NoneV

coerceplane(plane) ==
    IF plane.t = "plane" THEN plane
    ELSE IF plane.t = "none" THEN NoneV
    ELSE IF IsSeqT(plane)
         THEN LET n == Len(plane.items) IN
              IF n \in {3, 9} /\ plane.items[1].t # "list"
              THEN IF \A i \in 1..n : IsNum(plane.items[i]) THEN PlaneV ELSE RaiseV
              ELSE IF n = 3 /\ IsSeqT(plane.items[1])
              THEN IF \A i \in 1..3 :
                        /\ IsSeqT(plane.items[i])
                        /\ Len(plane.items[i].items) >= 3
                        /\ \A j \in 1..3 : IsNum(plane.items[i].items[j])
                   THEN PlaneV ELSE RaiseV
              ELSE NoneV
    ELSE NoneV

\* Rhino.Geometry.Line(a, b): TypeError unless both are points.
Line(a, b) == IF a.t = "pt" /\ b.t = "pt" THEN LineV(a, b) ELSE RaiseV

coerceline(line) ==
    IF line.t = "none" \/ line.t = "line" THEN line
    ELSE IF IsSeqT(line)
         THEN LET points == coerce3dpointlist(line) IN
              IF points.t = "raise" THEN RaiseV
              ELSE IF points.t = "none" THEN RaiseV
              ELSE IF Len(points.items) = 2
                   THEN Line(points.items[1], points.items[2])
              ELSE NoneV
    ELSE NoneV

RECURSIVE GuidsOf(_)
GuidsOf(ids) ==
    IF ids = <<>> THEN <<>>
    ELSE LET id == coerceguid(Head(ids)) IN
         (IF id.t # "none" THEN <<id>> ELSE <<>>) \o GuidsOf(Tail(ids))

coerceguidlist(ids) ==
    IF ids.t = "none" THEN NoneV
    ELSE LET rc == GuidsOf(IF IsSeqT(ids) THEN ids.items ELSE <<ids>>) IN
         IF Len(rc) = 0 THEN NoneV ELSE ListV(rc)

(***************************************************************************)
(* The state: the host document's object table, and what the last call did.*)
(***************************************************************************)
VARIABLES
    doc,      \* scriptcontext.doc.Objects: GUID number -> kind of geometry
    nextId,   \* the GUID number the table gives the next object it adds
    ncalls,   \* script calls made so far
    pre,      \* the object table as it was when the last call began
    call      \* the last call: function, arguments, outcome and effects

vars == <<doc, nextId, ncalls, pre, call>>

\* kinds of geometry that are a Rhino.Geometry.Curve
IsCurveKind(k) == k \notin {"brep", "point", "mesh"}

\* objref.Curve() of Rhino.DocObjects.ObjRef(guid): the object's curve, if any
coercecurve(d, id) ==
    IF id.t = "geom" /\ IsCurveKind(id.fmt) THEN id
    ELSE LET g == coerceguid(id) IN
         IF g.t = "none" THEN NoneV
         ELSE IF g.g \in DOMAIN d /\ IsCurveKind(d[g.g]) THEN GeomV(d[g.g])
         ELSE NoneV

coercebrep(d, id) ==
    LET g == coerceguid(id) IN
    IF g.t = "none" THEN NoneV
    ELSE IF g.g \in DOMAIN d /\ d[g.g] = "brep" THEN GeomV("brep")
    ELSE NoneV

(***************************************************************************)
(* The course of one call.  A function's run is a record: the table it     *)
(* leaves, its return value or the exception that left it, and its effects *)
(*   redrawn   scriptcontext.doc.Views.Redraw() was called                 *)
(*   added     the GUID numbers of the objects the table added, in order   *)
(*   deleted, replaced   the GUID numbers the table deleted / replaced     *)
(*   handed    the values handed to the table (ObjRef, Find, Replace,      *)
(*             Delete) to name an object                                   *)
(*   fault     "coercion" when an argument failed coercion, "kernel" when  *)
(*             the kernel or the table reported failure, else "none"       *)
(*   kernel    the number of curves the kernel's Split, DuplicateSegments  *)
(*             or JoinCurves gave in all (-1: none was asked)              *)
(*   took      the GUID numbers of the input objects whose curves the      *)
(*             kernel exploded into at least one piece, or was given to    *)
(*             join                                                        *)
(***************************************************************************)
Begin(d, n) ==
    [doc |-> d, nextId |-> n, ret |-> NoneV, raised |-> FALSE, redrawn |-> FALSE,
     added |-> <<>>, deleted |-> {}, replaced |-> {}, handed |-> {},
     fault |-> "none", kernel |-> -1, took |-> {}]

Return(r, v) == [r EXCEPT !.ret = v]
\* return scriptcontext.errorhandler()
Fail(r, why) == [r EXCEPT !.ret = errorhandler, !.fault = why]
\* an exception leaves the function
Throw(r) == [r EXCEPT !.raised = TRUE, !.ret = NoneV]
ThrowBad(r) == [r EXCEPT !.raised = TRUE, !.ret = NoneV, !.fault = "coercion"]
Redraw(r) == [r EXCEPT !.redrawn = TRUE]
\* the coercion of an identifier looks the object up by the coerced GUID
Looked(r, id) ==
    IF coerceguid(id).t = "guid"
    THEN [r EXCEPT !.handed = @ \cup {coerceguid(id)}] ELSE r

\* doc.Objects.Add...(geometry): the new object's GUID, or Guid.Empty (ok
\* false) with nothing added
ObjectsAdd(r, kind, ok) ==
    IF ok THEN [r EXCEPT !.doc = r.doc @@ (r.nextId :> kind),
                         !.nextId = r.nextId + 1,
                         !.added = Append(r.added, r.nextId)]
    ELSE r
AddedId(r, ok) == IF ok THEN GuidV(r.nextId) ELSE GuidEmpty

\* the constructors' tail with the redraw ahead of the Guid.Empty test
AddAndReturnRedrawFirst(r, kind, ok) ==
    LET rc == AddedId(r, ok)
        r1 == Redraw(ObjectsAdd(r, kind, ok)) IN
    IF rc = GuidEmpty THEN Fail(r1, "kernel") ELSE Return(r1, rc)
\* the tail the constructors share:
\*   rc = doc.Objects.Add...; if rc == Guid.Empty: return errorhandler()
\*   doc.Views.Redraw(); return rc
AddAndReturn(r, kind, ok) ==
    LET rc == AddedId(r, ok)
        r1 == ObjectsAdd(r, kind, ok) IN
    IF rc = GuidEmpty THEN Fail(r1, "kernel") ELSE Return(Redraw(r1), rc)

AnyRaise(vs) == \E i \in 1..Len(vs) : vs[i].t = "raise"
AnyNone(vs) == \E i \in 1..Len(vs) : vs[i].t = "none"

(***************************************************************************)
(* curve.py: the constructors of one object.                               *)
(***************************************************************************)
\* the pattern of AddArc3Pt, AddCircle3Pt, AddEllipse3Pt, AddLine,
\* AddArcPtTanPt: coerce each argument, give up if one is None, add
AddFromCoerced(d, n, coerced, kind, ok) ==
    IF AnyRaise(coerced) THEN ThrowBad(Begin(d, n))
    ELSE IF AnyNone(coerced) THEN Fail(Begin(d, n), "coercion")
    ELSE AddAndReturn(Begin(d, n), kind, ok)

FnAddArc(d, n, plane, ok) ==
    AddFromCoerced(d, n, <<coerceplane(plane)>>, "arc", ok)

FnAddArc3Pt(d, n, start, end, point_on_arc, ok) ==
    AddFromCoerced(d, n, <<coerce3dpoint(start), coerce3dpoint(end),
                           coerce3dpoint(point_on_arc)>>, "arc", ok)

FnAddArcPtTanPt(d, n, start, direction, end, ok) ==
    AddFromCoerced(d, n, <<coerce3dpoint(start), coerce3dvector(direction),
                           coerce3dpoint(end)>>, "arc", ok)

FnAddCircle3Pt(d, n, first, second, third, ok) ==
    AddFromCoerced(d, n, <<coerce3dpoint(first), coerce3dpoint(second),
                           coerce3dpoint(third)>>, "circle", ok)

FnAddEllipse(d, n, plane, ok) ==
    AddFromCoerced(d, n, <<coerceplane(plane)>>, "ellipse", ok)

FnAddEllipse3Pt(d, n, center, second, third, ok) ==
    AddFromCoerced(d, n, <<coerce3dpoint(center), coerce3dpoint(second),
                           coerce3dpoint(third)>>, "ellipse", ok)

FnAddLine(d, n, start, end, ok) ==
    AddFromCoerced(d, n, <<coerce3dpoint(start), coerce3dpoint(end)>>, "line", ok)

\* a point list handed to the kernel or the table: TypeError unless every
\* element is a Point3d
AllPoints(points) == \A i \in 1..Len(points.items) : points.items[i].t = "pt"

\* kernelOk: Curve.CreateControlPointCurve gave a curve
FnAddCurve(d, n, points, kernelOk, ok) ==
    LET pts == coerce3dpointlist(points) IN
    IF pts.t = "raise" THEN ThrowBad(Begin(d, n))
    ELSE IF pts.t = "none" THEN Fail(Begin(d, n), "coercion")
    ELSE IF ~AllPoints(pts) THEN ThrowBad(Begin(d, n))
    ELSE IF ~kernelOk THEN Fail(Begin(d, n), "kernel")
    ELSE AddAndReturn(Begin(d, n), "curve", ok)

\* kernelOk: Curve.CreateInterpolatedCurve gave a curve
FnAddInterpCurve(d, n, points, start_tangent, end_tangent, kernelOk, ok) ==
    LET pts == coerce3dpointlist(points) IN
    IF pts.t = "raise" THEN ThrowBad(Begin(d, n))
    ELSE IF pts.t = "none" THEN Fail(Begin(d, n), "coercion")
    ELSE IF coerce3dvector(start_tangent).t = "raise"
            \/ coerce3dvector(end_tangent).t = "raise"
         THEN ThrowBad(Begin(d, n))
    ELSE IF ~AllPoints(pts) THEN ThrowBad(Begin(d, n))
    ELSE IF ~kernelOk THEN Fail(Begin(d, n), "kernel")
    ELSE AddAndReturn(Begin(d, n), "curve", ok)

FnAddPolyline(d, n, points, ok) ==
    LET pts == coerce3dpointlist(points) IN
    IF pts.t = "raise" THEN ThrowBad(Begin(d, n))
    ELSE IF pts.t = "none" THEN Fail(Begin(d, n), "coercion")
    ELSE IF ~AllPoints(pts) THEN ThrowBad(Begin(d, n))
    ELSE AddAndReturn(Begin(d, n), "polyline", ok)

\* kernelOk: curve.Trim(param0, param1) gave a curve
FnAddSubCrv(d, n, curve_id, kernelOk, ok) ==
    LET r == Looked(Begin(d, n), curve_id) IN
    IF coercecurve(d, curve_id).t = "none" THEN Fail(r, "coercion")
    ELSE IF ~kernelOk THEN Fail(r, "kernel")
    ELSE AddAndReturn(r, "curve", ok)

(***************************************************************************)
(* The host's object table, as the functions below use it.                 *)
(***************************************************************************)
\* a value handed to the table to name an object
Hand(r, v) == [r EXCEPT !.handed = @ \cup {v}]

\* Rhino.DocObjects.ObjRef(id), doc.Objects.Replace(id, ..): the binding takes
\* a System.Guid there; any other script value is a TypeError
IsGuid(v) == v.t = "guid"

\* doc.Objects.Replace(id, geometry): True when the table held the object and
\* took the new geometry (ok), False with nothing changed otherwise
ReplaceOk(r, id, ok) == ok /\ id.g \in DOMAIN r.doc
ObjectsReplace(r, id, kind, ok) ==
    IF ReplaceOk(r, id, ok)
    THEN [Hand(r, id) EXCEPT !.doc = [r.doc EXCEPT ![id.g] = kind],
                             !.replaced = @ \cup {id.g}]
    ELSE Hand(r, id)

\* doc.Objects.Delete(id, quiet): the object leaves the table, if it is there
ObjectsDelete(r, id) ==
    IF id.g \in DOMAIN r.doc
    THEN [Hand(r, id) EXCEPT !.doc = [x \in (DOMAIN r.doc) \ {id.g} |-> r.doc[x]],
                             !.deleted = @ \cup {id.g}]
    ELSE Hand(r, id)

\* [doc.Objects.AddCurve(c) for c in curves]: k curves of one kind, one
\* AddCurve each; the calls whose number (counted over the whole list rc) is
\* in fails give Guid.Empty.  The run so far and the list so far.
RECURSIVE AddAll(_, _, _, _, _)
AddAll(r, rc, k, kind, fails) ==
    IF k = 0 THEN [r |-> r, rc |-> rc]
    ELSE LET ok == (Len(rc) + 1) \notin fails IN
         AddAll(ObjectsAdd(r, kind, ok), Append(rc, AddedId(r, ok)), k - 1,
                kind, fails)

(***************************************************************************)
(* curve.py: the functions that change objects of the document.            *)
(***************************************************************************)
\* cp0Ok, cp1Ok: curve.ClosestPoint found a parameter; ok: the table took
\* the arc of Curve.CreateFillet
FnAddFilletCurve(d, n, curve0id, curve1id, base_point0, base_point1, cp0Ok, cp1Ok, ok) ==
    LET base0 == coerce3dpoint(base_point0)
        base1 == coerce3dpoint(base_point1)
        r == Looked(Looked(Begin(d, n), curve0id), curve1id) IN
    IF base0.t = "raise" \/ base1.t = "raise" THEN ThrowBad(Begin(d, n))
    ELSE IF coercecurve(d, curve0id).t = "none" \/ coercecurve(d, curve1id).t = "none"
         THEN Fail(r, "coercion")
    ELSE IF base0.t # "none" /\ ~cp0Ok THEN Fail(r, "kernel")
    ELSE IF base1.t # "none" /\ ~cp1Ok
         THEN [r EXCEPT !.ret = NoneV, !.fault = "kernel"]
    ELSE AddAndReturn(r, "arc", ok)

\* ConvertCurveToPolyline taking the AddCurve branch whatever delete_input is
FnConvertCurveToPolylineAlwaysAdds(d, n, curve_id, delete_input, kernelOk, ok) ==
    LET r == Looked(Begin(d, n), curve_id) IN
    IF coercecurve(d, curve_id).t = "none" THEN Fail(r, "coercion")
    ELSE IF ~kernelOk THEN Fail(r, "kernel")
    ELSE IF AddedId(r, ok) = GuidEmpty
         THEN Fail(ObjectsAdd(r, "polyline", ok), "kernel")
         ELSE Return(ObjectsAdd(r, "polyline", ok), AddedId(r, ok))

\* kernelOk: curve.ToPolyline gave a polyline; ok: the table's Replace or
\* AddCurve succeeded
FnConvertCurveToPolyline(d, n, curve_id, delete_input, kernelOk, ok) ==
    LET r == Looked(Begin(d, n), curve_id) IN
    IF coercecurve(d, curve_id).t = "none" THEN Fail(r, "coercion")
    ELSE IF ~kernelOk THEN Fail(r, "kernel")
    ELSE IF delete_input
         THEN IF ~IsGuid(curve_id) THEN Throw(Hand(r, curve_id))
              ELSE IF ReplaceOk(r, curve_id, ok)
                   THEN Return(ObjectsReplace(r, curve_id, "polyline", ok), curve_id)
                   ELSE Fail(ObjectsReplace(r, curve_id, "polyline", ok), "kernel")
         ELSE IF AddedId(r, ok) = GuidEmpty
              THEN Fail(ObjectsAdd(r, "polyline", ok), "kernel")
              ELSE Return(ObjectsAdd(r, "polyline", ok), AddedId(r, ok))

\* the loop the three boolean functions share, over the valid curves the
\* kernel gave (ncurves of them):
\*   rc = doc.Objects.AddCurve(curve)
\*   if( rc==System.Guid.Empty ): return scriptcontext.errorhandler()
\*   curves.append(rc)
\* and then doc.Views.Redraw(); return curves
RECURSIVE AddOutCurves(_, _, _, _)
AddOutCurves(r, curves, ncurves, fails) ==
    IF Len(curves) = ncurves THEN Return(Redraw(r), ListV(curves))
    ELSE IF (Len(curves) + 1) \in fails THEN Fail(r, "kernel")
    ELSE AddOutCurves(ObjectsAdd(r, "curve", TRUE),
                      Append(curves, AddedId(r, TRUE)), ncurves, fails)

\* ncurves: the valid curves Curve.CreateBooleanDifference / Intersection
\* gave; fails: the AddCurve calls that give Guid.Empty
FnCurveBooleanDifference(d, n, curve_id_0, curve_id_1, ncurves, fails) ==
    LET r == Looked(Looked(Begin(d, n), curve_id_0), curve_id_1) IN
    IF coercecurve(d, curve_id_0).t = "none" \/ coercecurve(d, curve_id_1).t = "none"
    THEN Fail(r, "coercion")
    ELSE AddOutCurves([r EXCEPT !.kernel = ncurves], <<>>, ncurves, fails)

FnCurveBooleanIntersection(d, n, curve_id_0, curve_id_1, ncurves, fails) ==
    LET r == Looked(Looked(Begin(d, n), curve_id_0), curve_id_1) IN
    IF coercecurve(d, curve_id_0).t = "none" \/ coercecurve(d, curve_id_1).t = "none"
    THEN Fail(r, "coercion")
    ELSE AddOutCurves([r EXCEPT !.kernel = ncurves], <<>>, ncurves, fails)

\* the loop over the kernel's points: rc = doc.Objects.AddPoint(point);
\* points.append(rc)
FnCurveBrepIntersect(d, n, curve_id, brep_id, kernelOk, ncurves, npoints, fails) ==
    LET r == Looked(Looked(Begin(d, n), curve_id), brep_id)
        cs == AddAll(r, <<>>, ncurves, "curve", fails)
        firstBad == CHOOSE i \in 1..(ncurves + 1) :
                        /\ i = ncurves + 1 \/ i \in fails
                        /\ \A j \in 1..(i - 1) : j \notin fails
        upTo == AddAll(r, <<>>, firstBad, "curve", fails)
        ps == AddAll(cs.r, <<>>, npoints, "point", {i - ncurves : i \in fails}) IN
    IF coercecurve(d, curve_id).t = "none" \/ coercebrep(d, brep_id).t = "none"
    THEN Fail(r, "coercion")
    ELSE IF ~kernelOk THEN Fail(r, "kernel")
    ELSE IF firstBad <= ncurves THEN Fail(upTo.r, "kernel")
    ELSE Return(IF Len(ps.rc) > 0 THEN Redraw(ps.r) ELSE ps.r,
                TupleV(<<ListV(cs.rc), ListV(ps.rc)>>))

\* closed: curve.IsClosed and the domain includes the parameter;
\* dupeOk: curve.Duplicate() gave a curve; ok: the table's Replace succeeded
FnCurveSeam(d, n, curve_id, closed, dupeOk, ok) ==
    LET r == Looked(Begin(d, n), curve_id) IN
    IF coercecurve(d, curve_id).t = "none" THEN Fail(r, "coercion")
    ELSE IF ~closed THEN Fail(r, "kernel")
    ELSE IF dupeOk
         THEN IF ~IsGuid(curve_id) THEN Throw(Hand(r, curve_id))
              ELSE Return(ObjectsReplace(r, curve_id, "modified", ok), BoolV(TRUE))
    ELSE [r EXCEPT !.ret = BoolV(FALSE), !.fault = "kernel"]

\* doc.Objects.Delete(None, True) of an identifier that coerced to None: the
\* binding's choice among its overloads is not the script's; it raises
\* (noneRaises) or deletes nothing
DeleteCoerced(r, id, noneRaises) ==
    LET g == coerceguid(id) IN
    IF g.t = "none" THEN (IF noneRaises THEN Throw(Hand(r, g)) ELSE Hand(r, g))
    ELSE ObjectsDelete(r, g)

\* the loop of ExplodeCurves from the i-th identifier on; npieces[i] is the
\* number of curves curve.DuplicateSegments() gives for the i-th
RECURSIVE ExplodeLoop(_, _, _, _, _, _, _, _)
ExplodeLoop(r, rc, ids, i, npieces, fails, delete_input, noneRaises) ==
    IF i > Len(ids) \/ r.raised THEN [r |-> r, rc |-> rc]
    ELSE LET r1 == Looked(r, ids[i]) IN
         IF coercecurve(r.doc, ids[i]).t = "none" \/ npieces[i] = 0
         THEN ExplodeLoop(r1, rc, ids, i + 1, npieces, fails, delete_input,
                          noneRaises)
         ELSE LET g == coerceguid(ids[i])
                  r2 == [r1 EXCEPT !.kernel = (IF @ < 0 THEN 0 ELSE @) + npieces[i],
                                   !.took = IF IsGuid(g) THEN @ \cup {g.g} ELSE @]
                  a == AddAll(r2, rc, npieces[i], "curve", fails) IN
              ExplodeLoop(IF delete_input
                          THEN DeleteCoerced(a.r, ids[i], noneRaises) ELSE a.r,
                          a.rc, ids, i + 1, npieces, fails, delete_input,
                          noneRaises)

FnExplodeCurves(d, n, curve_ids, delete_input, npieces, fails, noneRaises) ==
    LET ids == IF IsSeqT(curve_ids) THEN curve_ids.items ELSE <<curve_ids>>
        e == ExplodeLoop(Begin(d, n), <<>>, ids, 1, npieces, fails, delete_input,
                         noneRaises) IN
    IF e.r.raised THEN e.r
    ELSE IF Len(e.rc) = 0
         THEN Fail(e.r, IF \E i \in 1..Len(ids) : coercecurve(d, ids[i]).t = "none"
                        THEN "coercion" ELSE "kernel")
    ELSE Return(Redraw(e.r), ListV(e.rc))

\* line 1823 names boundary_object_id, which nothing defines: once curve is a
\* curve, evaluating the condition raises NameError
FnExtendCurve(d, n, curve_id, extension_type, side, boundary_object_ids) ==
    LET r == Looked(Begin(d, n), curve_id) IN
    IF coercecurve(d, curve_id).t = "none" THEN Fail(r, "coercion")
    ELSE IF coerceguidlist(boundary_object_ids).t = "none" THEN ThrowBad(r)
    ELSE Throw(r)

Range(f) == {f[i] : i \in DOMAIN f}

RECURSIVE CurvesOf(_, _)
CurvesOf(d, ids) ==
    IF ids = <<>> THEN <<>>
    ELSE (IF coercecurve(d, Head(ids)).t # "none" THEN <<Head(ids)>> ELSE <<>>)
         \o CurvesOf(d, Tail(ids))

RECURSIVE LookedAll(_, _)
LookedAll(r, ids) ==
    IF ids = <<>> THEN r ELSE LookedAll(Looked(r, Head(ids)), Tail(ids))

\* for id in object_ids: id = coerceguid(id); if id: doc.Objects.Delete(id, False)
RECURSIVE DeleteEach(_, _)
DeleteEach(r, ids) ==
    IF ids = <<>> THEN r
    ELSE DeleteEach(IF coerceguid(Head(ids)).t = "none" THEN r
                    ELSE ObjectsDelete(r, coerceguid(Head(ids))), Tail(ids))

\* njoined: the number of curves Curve.JoinCurves gives, at most one for
\* each curve it is given
FnJoinCurves(d, n, object_ids, delete_input, njoined, fails) ==
    IF ~IsSeqT(object_ids) /\ object_ids.t # "str" THEN ThrowBad(Begin(d, n))
    ELSE LET ids == object_ids.items
             k == IF njoined > Len(CurvesOf(d, ids))
                  THEN Len(CurvesOf(d, ids)) ELSE njoined
             r == [LookedAll(Begin(d, n), ids) EXCEPT
                       !.kernel = k,
                       !.took = {coerceguid(c).g : c \in
                                   {x \in Range(CurvesOf(d, ids)) : x.t # "geom"}}]
             a == AddAll(r, <<>>, k, "curve", fails) IN
         IF (IF object_ids.t = "str" THEN object_ids.len ELSE Len(ids)) < 2
         THEN Fail(Begin(d, n), "coercion")
         ELSE IF Len(a.rc) = 0 THEN Fail(a.r, "kernel")
         ELSE Return(Redraw(IF delete_input THEN DeleteEach(a.r, ids) ELSE a.r),
                     ListV(a.rc))

\* curve_id is iterated: a value that is no list, tuple or string raises
\* TypeError, the characters of a string coerce to no curve
FnCurveBooleanUnion(d, n, curve_id, ncurves, fails) ==
    IF ~IsSeqT(curve_id) /\ curve_id.t # "str" THEN ThrowBad(Begin(d, n))
    ELSE LET ids == curve_id.items
             r == LookedAll(Begin(d, n), ids) IN
         IF Len(CurvesOf(d, ids)) < 2 THEN Fail(r, "coercion")
         ELSE AddOutCurves([r EXCEPT !.kernel = ncurves], <<>>, ncurves, fails)

\* degree: the degree argument; kernelOk: curve.Rebuild gave a curve;
\* ok: the table's Replace succeeded (the function does not look)
FnRebuildCurve(d, n, curve_id, degree, kernelOk, ok) ==
    LET r == Looked(Begin(d, n), curve_id) IN
    IF coercecurve(d, curve_id).t = "none"
    THEN [r EXCEPT !.ret = BoolV(FALSE), !.fault = "coercion"]
    ELSE IF degree.g <= 1 THEN [r EXCEPT !.ret = BoolV(FALSE), !.fault = "coercion"]
    ELSE IF ~kernelOk THEN [r EXCEPT !.ret = BoolV(FALSE), !.fault = "kernel"]
    ELSE IF ~IsGuid(curve_id) THEN Throw(Hand(r, curve_id))
    ELSE Return(Redraw(ObjectsReplace(r, curve_id, "modified", ok)), BoolV(TRUE))

\* kernelOk: curve.Reverse() succeeded; ok: the table's Replace succeeded
FnReverseCurve(d, n, curve_id, kernelOk, ok) ==
    LET r == Looked(Begin(d, n), curve_id) IN
    IF coercecurve(d, curve_id).t = "none"
    THEN [r EXCEPT !.ret = BoolV(FALSE), !.fault = "coercion"]
    ELSE IF ~kernelOk THEN [r EXCEPT !.ret = BoolV(FALSE), !.fault = "kernel"]
    ELSE IF ~IsGuid(coerceguid(curve_id)) THEN Throw(Hand(r, coerceguid(curve_id)))
    ELSE Return(ObjectsReplace(r, coerceguid(curve_id), "modified", ok), BoolV(TRUE))

\* kernelOk: curve.Simplify gave a curve; ok: the table's Replace succeeded
\* (the function does not look)
FnSimplifyCurve(d, n, curve_id, kernelOk, ok) ==
    LET r == Looked(Begin(d, n), curve_id) IN
    IF coercecurve(d, curve_id).t = "none"
    THEN [r EXCEPT !.ret = BoolV(FALSE), !.fault = "coercion"]
    ELSE IF ~kernelOk THEN [r EXCEPT !.ret = BoolV(FALSE), !.fault = "kernel"]
    ELSE IF ~IsGuid(coerceguid(curve_id)) THEN Throw(Hand(r, coerceguid(curve_id)))
    ELSE Return(Redraw(ObjectsReplace(r, coerceguid(curve_id), "modified", ok)),
                BoolV(TRUE))

\* kernelOk: curve.Fair gave a curve; ok: the table's Replace succeeded
FnFairCurve(d, n, curve_id, kernelOk, ok) ==
    LET r == Looked(Begin(d, n), curve_id)
        g == coerceguid(curve_id) IN
    IF coercecurve(d, curve_id).t = "none" THEN Fail(r, "coercion")
    ELSE IF ~kernelOk THEN Fail(r, "kernel")
    ELSE IF ~IsGuid(g) THEN Throw(Hand(r, g))
    ELSE IF ReplaceOk(r, g, ok)
         THEN Return(Redraw(ObjectsReplace(r, g, "modified", ok)), BoolV(TRUE))
         ELSE [ObjectsReplace(r, g, "modified", ok) EXCEPT
                   !.ret = BoolV(FALSE), !.fault = "kernel"]

\* nsplit: -1 when curve.Split gives None, else the number of curves it gives
FnSplitCurve(d, n, curve_id, delete_input, nsplit, fails) ==
    LET r == Looked(Begin(d, n), curve_id)
        g == coerceguid(curve_id)
        a == AddAll([Hand(r, g) EXCEPT !.kernel = nsplit], <<>>, nsplit, "curve",
                    fails) IN
    IF coercecurve(d, curve_id).t = "none" THEN Fail(r, "coercion")
    ELSE IF nsplit < 0 THEN Fail(r, "kernel")
    ELSE IF ~IsGuid(g) THEN Throw(Hand(r, g))
    ELSE IF Len(a.rc) = 0 THEN Fail(a.r, "kernel")
    ELSE Return(Redraw(IF delete_input THEN ObjectsDelete(a.r, g) ELSE a.r),
                ListV(a.rc))

\* interval: the pair of parameters; kernelOk: curve.Trim gave a curve;
\* ok: the table's AddCurve succeeded (the function does not look)
FnTrimCurve(d, n, curve_id, interval, delete_input, kernelOk, ok) ==
    LET r == Looked(Begin(d, n), curve_id)
        g == coerceguid(curve_id)
        a == ObjectsAdd(Hand(r, g), "curve", ok) IN
    IF coercecurve(d, curve_id).t = "none" THEN Fail(r, "coercion")
    ELSE IF interval.items[1] = interval.items[2] THEN Fail(r, "coercion")
    ELSE IF ~kernelOk THEN Fail(r, "kernel")
    ELSE IF ~IsGuid(g) THEN Throw(Hand(r, g))
    ELSE Return(Redraw(IF delete_input THEN ObjectsDelete(a, g) ELSE a),
                AddedId(Hand(r, g), ok))

(***************************************************************************)
(* utility.py: Distance.                                                   *)
(***************************************************************************)
\* a float that is the square root of sq (vec.Length is kept by its square)
RootV(sq) == Val("float", sq, "sqrt", 0, <<>>)

\* vec = a - b; vec.Length: Point3d - Point3d is a Vector3d, Point3d - None
\* and None - Point3d are TypeErrors
LengthOfDifference(a, b) ==
    IF a.t = "pt" /\ b.t = "pt"
    THEN RootV((a.items[1].g - b.items[1].g) * (a.items[1].g - b.items[1].g)
               + (a.items[2].g - b.items[2].g) * (a.items[2].g - b.items[2].g)
               + (a.items[3].g - b.items[3].g) * (a.items[3].g - b.items[3].g))
    ELSE RaiseV

FnDistance(d, n, point1, point2) ==
    LET r == Begin(d, n)
        from_pt == coerce3dpoint(point1)
        to_pt == coerce3dpoint(point2)
        to_list == coerce3dpointlist(point2)
        distances == [i \in 1..Len(to_list.items) |->
                        LengthOfDifference(to_list.items[i], from_pt)] IN
    IF from_pt.t = "raise" \/ to_pt.t = "raise" THEN ThrowBad(r)
    ELSE IF to_pt.t # "none"
         THEN IF LengthOfDifference(to_pt, from_pt).t = "raise" THEN ThrowBad(r)
              ELSE Return(r, LengthOfDifference(to_pt, from_pt))
    ELSE IF to_list.t = "raise" THEN ThrowBad(r)
    ELSE IF to_list.t = "none" THEN Fail(r, "coercion")
    ELSE IF AnyRaise(distances) THEN ThrowBad(r)
    ELSE IF Len(distances) = 0 THEN Fail(r, "coercion")
    ELSE Return(r, ListV(distances))

(***************************************************************************)
(* utility.py: SortPoints.                                                 *)
(***************************************************************************)
X(a) == a.items[1].g
Y(a) == a.items[2].g
Z(a) == a.items[3].g
cmp(x, y) == IF x < y THEN -1 ELSE IF x > y THEN 1 ELSE 0

cmpXYZ(a, b) ==
    IF cmp(X(a), X(b)) # 0 THEN cmp(X(a), X(b))
    ELSE IF cmp(Y(a), Y(b)) # 0 THEN cmp(Y(a), Y(b))
    ELSE cmp(Z(a), Z(b))
cmpXZY(a, b) ==
    IF cmp(X(a), X(b)) # 0 THEN cmp(X(a), X(b))
    ELSE IF cmp(Z(a), Z(b)) # 0 THEN cmp(Z(a), Z(b))
    ELSE cmp(Y(a), Y(b))
cmpYXZ(a, b) ==
    IF cmp(Y(a), Y(b)) # 0 THEN cmp(Y(a), Y(b))
    ELSE IF cmp(X(a), X(b)) # 0 THEN cmp(X(a), X(b))
    ELSE cmp(Z(a), Z(b))
cmpYZX(a, b) ==
    IF cmp(Y(a), Y(b)) # 0 THEN cmp(Y(a), Y(b))
    ELSE IF cmp(Z(a), Z(b)) # 0 THEN cmp(Z(a), Z(b))
    ELSE cmp(X(a), X(b))
cmpZXY(a, b) ==
    IF cmp(Z(a), Z(b)) # 0 THEN cmp(Z(a), Z(b))
    ELSE IF cmp(X(a), X(b)) # 0 THEN cmp(X(a), X(b))
    ELSE cmp(Y(a), Y(b))
cmpZYX(a, b) ==
    IF cmp(Z(a), Z(b)) # 0 THEN cmp(Z(a), Z(b))
    ELSE IF cmp(Y(a), Y(b)) # 0 THEN cmp(Y(a), Y(b))
    ELSE cmp(X(a), X(b))

\* sortfunc taken as __cmpXYZ whatever order is
sortfuncAlwaysXYZ(order, a, b) == cmpXYZ(a, b)

\* sortfunc = __cmpXYZ; if( order==1 ): sortfunc = __cmpXZY; elif ...
sortfunc(order, a, b) ==
    IF order.g = 1 THEN cmpXZY(a, b)
    ELSE IF order.g = 2 THEN cmpYXZ(a, b)
    ELSE IF order.g = 3 THEN cmpYZX(a, b)
    ELSE IF order.g = 4 THEN cmpZXY(a, b)
    ELSE IF order.g = 5 THEN cmpZYX(a, b)
    ELSE cmpXYZ(a, b)

\* sorted(iterable, cmp, None, reverse) is a stable sort into a new list:
\* x goes behind every element already placed that does not sort after it
RECURSIVE InsertSorted(_, _, _, _)
InsertSorted(x, rc, order, reverse) ==
    IF rc = <<>> THEN <<x>>
    ELSE IF (IF reverse THEN sortfunc(order, Head(rc), x) >= 0
                        ELSE sortfunc(order, Head(rc), x) <= 0)
         THEN <<Head(rc)>> \o InsertSorted(x, Tail(rc), order, reverse)
         ELSE <<x>> \o rc

RECURSIVE sorted(_, _, _)
sorted(points, order, reverse) ==
    IF points = <<>> THEN <<>>
    ELSE InsertSorted(points[Len(points)],
                      sorted(SubSeq(points, 1, Len(points) - 1), order, reverse),
                      order, reverse)

\* not v, of a bool, a number, None or a list
Not(v) ==
    IF v.t \in {"bool", "int"} THEN v.g = 0
    ELSE IF IsSeqT(v) THEN v.items = <<>>
    ELSE v.t = "none"

\* points is not coerced: a.X of an element that is no Point3d is an
\* AttributeError once two elements are compared; a value that cannot be
\* iterated is a TypeError.  input: the caller's list after the call.
FnSortPoints(d, n, points, ascending, order) ==
    LET r == [input |-> points] @@ Begin(d, n) IN
    IF ~IsSeqT(points) /\ points.t # "ptarray" THEN ThrowBad(r)
    ELSE IF Len(points.items) >= 2 /\ \E i \in 1..Len(points.items) : points.items[i].t # "pt"
    THEN ThrowBad(r)
    ELSE Return(r, ListV(sorted(points.items, order, Not(ascending))))

(***************************************************************************)
(* The arguments scripts pass.                                             *)
(***************************************************************************)
P123 == <<IntV(1), IntV(2), IntV(3)>>
\* a point argument: a Point3d, a list, a string "1,2,3"; None and a list of
\* two numbers coerce to None; a string that is no point raises in float()
PointArgs == {PtV(P123), ListV(P123), CsvStr(P123), NoneV,
              ListV(<<IntV(1), IntV(2)>>), JunkStr(3)}
PointArgs3 == {ListV(P123), NoneV, JunkStr(3)}
VectorArgs == {VecV(P123), TupleV(P123), NoneV, ListV(<<NoneV, IntV(0), IntV(0)>>)}
PlaneArgs == {PlaneV, ListV(P123), ListV(<<ListV(P123), ListV(P123), ListV(P123)>>),
              NoneV, PtV(P123), TupleV(<<ListV(P123), IntV(0), IntV(0)>>)}
PointListArgs == {ListV(<<PtV(P123), ListV(P123)>>), ListV(P123 \o P123),
                  Val("ptarray", 0, "", 0, <<PtV(P123), PtV(P123)>>),
                  ListV(<<>>), NoneV, IntV(5), ListV(<<IntV(1), IntV(2)>>),
                  ListV(<<ListV(<<IntV(1), IntV(2)>>)>>)}
LineArgs == {NoneV, LineV(PtV(P123), PtV(P123)), ListV(<<PtV(P123), PtV(P123)>>),
             ListV(<<IntV(1), IntV(2)>>), ListV(<<>>), IntV(5),
             ListV(<<PtV(P123), PtV(P123), PtV(P123)>>),
             ListV(<<ListV(<<IntV(1)>>), PtV(P123)>>)}

\* an identifier in its forms: the GUID, its text, a 1-element list of it
IdForms(g) == {GuidV(g), GuidStr("D", g), ListV(<<GuidV(g)>>)}
\* identifier arguments: objects 1 and 2 are curves of the first document,
\* 3 is a polysurface, Guid.Empty names no object
IdArgs == IdForms(1) \cup {GuidV(2), TupleV(<<GuidStr("N", 2)>>), GuidV(3),
                           GuidEmpty, JunkStr(31), NoneV, GeomV("curve")}

\* the values coerceguid is tried on: up to MaxDepth 1-element wrappers
GuidBase == {GuidV(1), GuidStr("D", 1), GuidStr("N", 1), GuidStr("B", 1),
             JunkStr(0), JunkStr(30), JunkStr(31), NoneV, IntV(7),
             GeomV("curve"), ListV(<<>>), ListV(<<GuidV(1), GuidV(2)>>),
             TupleV(<<GuidStr("D", 1), GuidV(1)>>)}
RECURSIVE Wrapped(_, _)
Wrapped(S, k) ==
    IF k = 0 THEN S
    ELSE LET T == Wrapped(S, k - 1) IN
         T \cup {ListV(<<v>>) : v \in T} \cup {TupleV(<<v>>) : v \in T}
GuidInputs == Wrapped(GuidBase, MaxDepth)

(***************************************************************************)
(* The actions: one script call each.                                      *)
(***************************************************************************)
Idle(d, n) == [op |-> "", args |-> <<>>] @@ Begin(d, n)

Init ==
    /\ doc = (1 :> "curve") @@ (2 :> "curve") @@ (3 :> "brep")
    /\ nextId = 4
    /\ ncalls = 0
    /\ pre = doc
    /\ call = Idle(doc, nextId)

\* the console is ready for a call
Ready == call.op = "" /\ ncalls < MaxCalls

\* the script calls function name with arguments a; r is the call's run
Do(name, a, r) ==
    /\ ncalls' = ncalls + 1
    /\ pre' = doc
    /\ doc' = r.doc
    /\ nextId' = r.nextId
    /\ call' = [op |-> name, args |-> a] @@ r

\* the script goes on to its next statement (after a raise: the console's
\* next command); the document stays as the call left it
NextStatement ==
    /\ call.op # ""
    /\ call' = Idle(doc, nextId)
    /\ pre' = doc
    /\ UNCHANGED <<doc, nextId, ncalls>>

\* a helper of utility.py called by a script: it returns, or raises
Helper(v) ==
    IF v.t = "raise" THEN ThrowBad(Begin(doc, nextId))
    ELSE IF v.t = "none" THEN [Begin(doc, nextId) EXCEPT !.fault = "coercion"]
    ELSE Return(Begin(doc, nextId), v)

CallCoerceGuid ==
    /\ Ready
    /\ \E id \in GuidInputs : Do("coerceguid", <<id>>, Helper(coerceguid(id)))

CallCoerceLine ==
    /\ Ready
    /\ \E line \in LineArgs : Do("coerceline", <<line>>, Helper(coerceline(line)))

Pt(x, y, z) == <<IntV(x), IntV(y), IntV(z)>>
\* point1: a Point3d, a list of three numbers, a string "1,2,3"; None and a
\* list of two numbers coerce to no point; float() raises on other strings
DistanceFrom == {PtV(Pt(0, 0, 0)), ListV(P123), CsvStr(P123), NoneV,
                 ListV(<<IntV(1), IntV(2)>>), JunkStr(3)}
\* point2: a point in those forms, or a list of points: two Point3d, three
\* lists, three tuples, a System.Array, a flat list of six numbers; a list
\* holding a 2-element list, an empty list, None and a string hold no points
DistanceTo == {PtV(Pt(1, 2, 3)), TupleV(Pt(3, 2, 1)), NoneV, JunkStr(3),
               ListV(<<PtV(Pt(0, 0, 1)), PtV(Pt(2, 0, 0))>>),
               ListV(<<ListV(Pt(0, 0, 0)), ListV(P123), ListV(Pt(2, 2, 2))>>),
               ListV(<<TupleV(Pt(0, 0, 0)), TupleV(P123), TupleV(Pt(2, 2, 2))>>),
               Val("ptarray", 0, "", 0, <<PtV(P123), PtV(Pt(0, 1, 0))>>),
               ListV(P123 \o Pt(0, 0, 0)),
               ListV(<<ListV(P123), ListV(<<IntV(1), IntV(2)>>)>>),
               ListV(<<>>), ListV(<<IntV(1), IntV(2)>>)}

CallDistance ==
    /\ Ready
    /\ \E point1 \in DistanceFrom, point2 \in DistanceTo :
        Do("Distance", <<point1, point2>>, FnDistance(doc, nextId, point1, point2))

\* three points that every two of the six orders tell apart
SortPointSet == {PtV(Pt(0, 0, 1)), PtV(Pt(0, 1, 0)), PtV(Pt(1, 0, 0))}
RECURSIVE SeqsUpTo(_, _)
SeqsUpTo(S, k) ==
    IF k = 0 THEN {<<>>}
    ELSE SeqsUpTo(S, k - 1) \cup {Append(q, x) : q \in SeqsUpTo(S, k - 1), x \in S}
\* points: lists and tuples of Point3d; lists of coordinate lists and None
\* are not sorted
SortArgs ==
    {ListV(q) : q \in SeqsUpTo(SortPointSet, MaxPoints)}
    \cup {TupleV(<<PtV(Pt(1, 0, 0)), PtV(Pt(0, 0, 1))>>),
          ListV(<<ListV(P123), ListV(Pt(0, 0, 0))>>), ListV(<<ListV(P123)>>), NoneV}

CallSortPoints ==
    /\ Ready
    /\ \E points \in SortArgs, ascending \in {BoolV(TRUE), BoolV(FALSE), NoneV},
          order \in {IntV(i) : i \in 0..5} \cup {IntV(7), NoneV} :
        Do("SortPoints", <<points, ascending, order>>,
           FnSortPoints(doc, nextId, points, ascending, order))

CallAddArc ==
    /\ Ready
    /\ \E plane \in PlaneArgs, ok \in BOOLEAN :
        Do("AddArc", <<plane>>, FnAddArc(doc, nextId, plane, ok))

CallAddArc3Pt ==
    /\ Ready
    /\ \E s \in PointArgs3, e \in PointArgs3, p \in PointArgs3, ok \in BOOLEAN :
        Do("AddArc3Pt", <<s, e, p>>, FnAddArc3Pt(doc, nextId, s, e, p, ok))

CallAddArcPtTanPt ==
    /\ Ready
    /\ \E s \in PointArgs3, v \in VectorArgs, e \in PointArgs3, ok \in BOOLEAN :
        Do("AddArcPtTanPt", <<s, v, e>>, FnAddArcPtTanPt(doc, nextId, s, v, e, ok))

CallAddCircle3Pt ==
    /\ Ready
    /\ \E s \in PointArgs3, e \in PointArgs3, p \in PointArgs3, ok \in BOOLEAN :
        Do("AddCircle3Pt", <<s, e, p>>, FnAddCircle3Pt(doc, nextId, s, e, p, ok))

CallAddCurve ==
    /\ Ready
    /\ \E points \in PointListArgs, kernelOk \in BOOLEAN, ok \in BOOLEAN :
        Do("AddCurve", <<points>>, FnAddCurve(doc, nextId, points, kernelOk, ok))

CallAddEllipse ==
    /\ Ready
    /\ \E plane \in PlaneArgs, ok \in BOOLEAN :
        Do("AddEllipse", <<plane>>, FnAddEllipse(doc, nextId, plane, ok))

CallAddEllipse3Pt ==
    /\ Ready
    /\ \E s \in PointArgs3, e \in PointArgs3, p \in PointArgs3, ok \in BOOLEAN :
        Do("AddEllipse3Pt", <<s, e, p>>, FnAddEllipse3Pt(doc, nextId, s, e, p, ok))

CallAddInterpCurve ==
    /\ Ready
    /\ \E points \in PointListArgs, st \in VectorArgs, et \in {NoneV},
       kernelOk \in BOOLEAN, ok \in BOOLEAN :
        Do("AddInterpCurve", <<points, st, et>>,
           FnAddInterpCurve(doc, nextId, points, st, et, kernelOk, ok))

CallAddLine ==
    /\ Ready
    /\ \E s \in PointArgs, e \in PointArgs, ok \in BOOLEAN :
        Do("AddLine", <<s, e>>, FnAddLine(doc, nextId, s, e, ok))

CallAddPolyline ==
    /\ Ready
    /\ \E points \in PointListArgs, ok \in BOOLEAN :
        Do("AddPolyline", <<points>>, FnAddPolyline(doc, nextId, points, ok))

CallAddSubCrv ==
    /\ Ready
    /\ \E id \in IdArgs, kernelOk \in BOOLEAN, ok \in BOOLEAN :
        Do("AddSubCrv", <<id>>, FnAddSubCrv(doc, nextId, id, kernelOk, ok))

BoolArgs == {BoolV(TRUE), BoolV(FALSE)}
Truthy(b) == b.g = 1

CallAddFilletCurve ==
    /\ Ready
    /\ \E c0 \in {GuidV(1), GuidStr("D", 1), GuidEmpty}, c1 \in {GuidV(2), GuidV(3)},
       b0 \in {NoneV, PtV(P123), JunkStr(3)}, b1 \in {NoneV, ListV(P123)},
       cp0Ok \in BOOLEAN, cp1Ok \in BOOLEAN, ok \in BOOLEAN :
        Do("AddFilletCurve", <<c0, c1, b0, b1>>,
           FnAddFilletCurve(doc, nextId, c0, c1, b0, b1, cp0Ok, cp1Ok, ok))

CallConvertCurveToPolyline ==
    /\ Ready
    /\ \E id \in IdArgs, del \in BoolArgs, kernelOk \in BOOLEAN, ok \in BOOLEAN :
        Do("ConvertCurveToPolyline", <<id, del>>,
           FnConvertCurveToPolyline(doc, nextId, id, Truthy(del), kernelOk, ok))

BooleanArgs == {GuidV(1), GuidStr("D", 2), GuidV(2), GuidV(3), NoneV}

CallCurveBooleanDifference ==
    /\ Ready
    /\ \E id0 \in BooleanArgs, id1 \in BooleanArgs, ncurves \in 0..MaxPieces :
        \E fails \in SUBSET (1..ncurves) :
            Do("CurveBooleanDifference", <<id0, id1>>,
               FnCurveBooleanDifference(doc, nextId, id0, id1, ncurves, fails))

CallCurveBooleanIntersection ==
    /\ Ready
    /\ \E id0 \in BooleanArgs, id1 \in BooleanArgs, ncurves \in 0..MaxPieces :
        \E fails \in SUBSET (1..ncurves) :
            Do("CurveBooleanIntersection", <<id0, id1>>,
               FnCurveBooleanIntersection(doc, nextId, id0, id1, ncurves, fails))

UnionArgs == {ListV(<<GuidV(1), GuidV(2)>>),
              TupleV(<<GuidStr("D", 1), GuidV(2), GuidV(3)>>),
              ListV(<<GuidV(1)>>), ListV(<<GuidV(1), GuidV(3)>>), GuidV(1),
              GuidStr("D", 1)}

CallCurveBooleanUnion ==
    /\ Ready
    /\ \E ids \in UnionArgs, ncurves \in 0..MaxPieces :
        \E fails \in SUBSET (1..ncurves) :
            Do("CurveBooleanUnion", <<ids>>,
               FnCurveBooleanUnion(doc, nextId, ids, ncurves, fails))

CallCurveBrepIntersect ==
    /\ Ready
    /\ \E id \in IdForms(1) \cup {GuidV(3), NoneV}, brep \in {GuidV(3), GuidV(2)},
       kernelOk \in BOOLEAN :
        \E ncurves \in (IF kernelOk THEN 0..MaxPieces ELSE {0}),
           npoints \in (IF kernelOk THEN 0..MaxPieces ELSE {0}) :
            \E fails \in SUBSET (1..(ncurves + npoints)) :
                Do("CurveBrepIntersect", <<id, brep>>,
                   FnCurveBrepIntersect(doc, nextId, id, brep, kernelOk, ncurves,
                                        npoints, fails))

CallCurveSeam ==
    /\ Ready
    /\ \E id \in IdArgs, closed \in BOOLEAN, dupeOk \in BOOLEAN, ok \in BOOLEAN :
        Do("CurveSeam", <<id>>, FnCurveSeam(doc, nextId, id, closed, dupeOk, ok))

ExplodeArgs == {GuidV(1), ListV(<<GuidStr("D", 1), GuidV(2)>>),
                ListV(<<GuidV(1), GuidV(1)>>), TupleV(<<GuidV(3), GuidV(2)>>),
                GeomV("curve"), NoneV, ListV(<<>>)}

RECURSIVE SumTo(_, _)
SumTo(f, m) == IF m = 0 THEN 0 ELSE f[m] + SumTo(f, m - 1)

CallExplodeCurves ==
    /\ Ready
    /\ \E ids \in ExplodeArgs, del \in BoolArgs :
        LET m == IF IsSeqT(ids) THEN Len(ids.items) ELSE 1 IN
        \E npieces \in [1..m -> 0..MaxPieces] :
            \E fails \in SUBSET (1..SumTo(npieces, m)),
               noneRaises \in (IF ids.t = "geom" THEN BOOLEAN ELSE {FALSE}) :
                Do("ExplodeCurves", <<ids, del>>,
                   FnExplodeCurves(doc, nextId, ids, Truthy(del), npieces,
                                   fails, noneRaises))

CallExtendCurve ==
    /\ Ready
    /\ \E id \in IdArgs, b \in {ListV(<<GuidV(2), GuidV(3)>>), GuidV(3), NoneV,
                             JunkStr(3)} :
        Do("ExtendCurve", <<id, IntV(0), IntV(1), b>>,
           FnExtendCurve(doc, nextId, id, IntV(0), IntV(1), b))

JoinArgs == {ListV(<<GuidV(1), GuidV(2)>>),
             ListV(<<GuidStr("D", 1), GuidV(2), GuidV(3)>>),
             ListV(<<GuidV(1)>>), ListV(<<GuidV(1), GuidV(3)>>), ListV(<<>>),
             TupleV(<<GuidV(3), GuidEmpty>>), GuidV(1), GuidStr("D", 1)}

CallJoinCurves ==
    /\ Ready
    /\ \E ids \in JoinArgs, del \in BoolArgs, njoined \in 0..MaxPieces :
        \E fails \in SUBSET (1..njoined) :
            Do("JoinCurves", <<ids, del>>,
               FnJoinCurves(doc, nextId, ids, Truthy(del), njoined, fails))

CallRebuildCurve ==
    /\ Ready
    /\ \E id \in IdArgs, degree \in {IntV(1), IntV(3)}, kernelOk \in BOOLEAN,
       ok \in BOOLEAN :
        Do("RebuildCurve", <<id, degree>>,
           FnRebuildCurve(doc, nextId, id, degree, kernelOk, ok))

CallReverseCurve ==
    /\ Ready
    /\ \E id \in IdArgs, kernelOk \in BOOLEAN, ok \in BOOLEAN :
        Do("ReverseCurve", <<id>>, FnReverseCurve(doc, nextId, id, kernelOk, ok))

CallSimplifyCurve ==
    /\ Ready
    /\ \E id \in IdArgs, kernelOk \in BOOLEAN, ok \in BOOLEAN :
        Do("SimplifyCurve", <<id>>, FnSimplifyCurve(doc, nextId, id, kernelOk, ok))

CallFairCurve ==
    /\ Ready
    /\ \E id \in IdArgs, kernelOk \in BOOLEAN, ok \in BOOLEAN :
        Do("FairCurve", <<id>>, FnFairCurve(doc, nextId, id, kernelOk, ok))

CallSplitCurve ==
    /\ Ready
    /\ \E id \in IdArgs, del \in BoolArgs, nsplit \in (-1)..MaxPieces :
        \E fails \in SUBSET (1..nsplit) :
            Do("SplitCurve", <<id, del>>,
               FnSplitCurve(doc, nextId, id, Truthy(del), nsplit, fails))

CallTrimCurve ==
    /\ Ready
    /\ \E id \in IdArgs, del \in BoolArgs, kernelOk \in BOOLEAN, ok \in BOOLEAN,
       interval \in {TupleV(<<IntV(0), IntV(1)>>), ListV(<<IntV(1), IntV(1)>>)} :
        Do("TrimCurve", <<id, interval, del>>,
           FnTrimCurve(doc, nextId, id, interval, Truthy(del), kernelOk, ok))

Next ==
    \/ CallCoerceGuid
    \/ CallCoerceLine
    \/ CallDistance
    \/ CallSortPoints
    \/ CallAddArc
    \/ CallAddArc3Pt
    \/ CallAddArcPtTanPt
    \/ CallAddCircle3Pt
    \/ CallAddCurve
    \/ CallAddEllipse
    \/ CallAddEllipse3Pt
    \/ CallAddInterpCurve
    \/ CallAddLine
    \/ CallAddPolyline
    \/ CallAddSubCrv
    \/ CallAddFilletCurve
    \/ CallConvertCurveToPolyline
    \/ CallCurveBooleanDifference
    \/ CallCurveBooleanIntersection
    \/ CallCurveBooleanUnion
    \/ CallCurveBrepIntersect
    \/ CallCurveSeam
    \/ CallExplodeCurves
    \/ CallExtendCurve
    \/ CallJoinCurves
    \/ CallRebuildCurve
    \/ CallReverseCurve
    \/ CallSimplifyCurve
    \/ CallFairCurve
    \/ CallSplitCurve
    \/ CallTrimCurve
    \/ NextStatement

Spec == Init /\ [][Next]_vars

(***************************************************************************)
(* What one call did to the document, read off the two documents.          *)
(***************************************************************************)
\* the objects the last call put into the document, and took out of it
New == DOMAIN doc \ DOMAIN pre
Lost == DOMAIN pre \ DOMAIN doc
\* every object that stayed has the geometry it had
Kept == \A g \in DOMAIN pre \cap DOMAIN doc : doc[g] = pre[g]
\* the GUIDs the identifiers among the arguments coerce to
ArgGuids ==
    {coerceguid(call.args[i]) : i \in 1..Len(call.args)}
\* the functions of curve.py whose first argument is one curve identifier
OneCurveFunctions ==
    {"AddFilletCurve", "ConvertCurveToPolyline", "CurveBrepIntersect", "CurveSeam",
     "ExtendCurve", "RebuildCurve", "ReverseCurve", "SplitCurve", "TrimCurve"}
Constructors ==
    {"AddArc", "AddArc3Pt", "AddArcPtTanPt", "AddCircle3Pt", "AddCurve",
     "AddEllipse", "AddEllipse3Pt", "AddInterpCurve", "AddLine", "AddPolyline",
     "AddSubCrv"}

(***************************************************************************)
(* C1: a call in which an argument fails coercion or the kernel reports    *)
(* failure returns the error handler's sentinel and raises nothing.        *)
(***************************************************************************)
C1_FailureGivesSentinel ==
    (call.op # "" /\ call.fault # "none") =>
        (~call.raised /\ call.ret = errorhandler)

(***************************************************************************)
(* C2: called with an identifier in any form coerceguid takes (a GUID, its *)
(* text, a 1-element list of it), a curve.py function hands the document   *)
(* object table nothing but the GUID coerceguid makes of that argument.    *)
(***************************************************************************)
C2_TableGetsCoercedGuid ==
    (call.op \in OneCurveFunctions /\ IsGuid(coerceguid(call.args[1]))) =>
        \A v \in call.handed : IsGuid(v) /\ v \in ArgGuids

(***************************************************************************)
(* C3: coerceguid gives the GUID inside any nest of 1-element lists and    *)
(* tuples around a GUID or a text that parses as one; for every other      *)
(* input it gives None; it never raises.                                   *)
(***************************************************************************)
RECURSIVE Unwrap(_)
Unwrap(v) == IF IsSeqT(v) /\ Len(v.items) = 1 THEN Unwrap(v.items[1]) ELSE v

C3_CoerceGuidContract ==
    call.op = "coerceguid" =>
        LET v == Unwrap(call.args[1]) IN
        /\ ~call.raised
        /\ call.ret = IF v.t = "guid" THEN v
                      ELSE IF v.t = "str" /\ v.fmt \in GuidFormats THEN GuidV(v.g)
                      ELSE NoneV

\* [("{...1}",)] came back as GUID 1, and a 2-element list as None
C3_Witness ==
    /\ call.op = "coerceguid"
    /\ \/ /\ call.args[1] = ListV(<<TupleV(<<GuidStr("B", 1)>>)>>)
          /\ call.ret = GuidV(1)
       \/ /\ call.args[1] = ListV(<<GuidV(1), GuidV(2)>>)
          /\ call.ret = NoneV

(***************************************************************************)
(* C4: a call that added an object to the document or replaced one has     *)
(* redrawn the views when it returns.                                      *)
(***************************************************************************)
C4_ChangeIsRedrawn ==
    (call.op # "" /\ ~call.raised /\ (New # {} \/ call.replaced # {})) =>
        call.redrawn

(***************************************************************************)
(* C5: a single-object constructor that returns an identifier has added    *)
(* exactly one object, the one it names, and changed nothing else; one     *)
(* that returns the sentinel left the document as it was and did not       *)
(* redraw.                                                                 *)
(***************************************************************************)
C5_ConstructorFrame ==
    (call.op \in Constructors /\ ~call.raised) =>
        IF call.ret = errorhandler
        THEN doc = pre /\ ~call.redrawn
        ELSE /\ \E g \in New : New = {g} /\ call.ret = GuidV(g)
             /\ Lost = {}
             /\ Kept

C5_Witness ==
    /\ call.op = "AddPolyline"
    /\ call.ret = GuidV(4)
    /\ 4 \in DOMAIN doc /\ 4 \notin DOMAIN pre

C7_SplitFrame ==
    (call.op = "SplitCurve" /\ ~call.raised) =>
        IF call.ret = errorhandler THEN doc = pre
        ELSE /\ call.ret.t = "list"
             /\ call.ret.items = [i \in 1..Len(call.added) |-> GuidV(call.added[i])]
             /\ Len(call.added) = call.kernel /\ call.kernel > 0
             /\ New = {call.added[i] : i \in 1..Len(call.added)}
             /\ Kept
             /\ Lost # {} => Truthy(call.args[2])
             /\ Lost \subseteq {coerceguid(call.args[1]).g}

(***************************************************************************)
(* C8: TrimCurve returns the identifier of a curve it added, or None; when *)
(* it added no curve it returns None and the input curve is still in the   *)
(* document.                                                               *)
(***************************************************************************)
C8_TrimFrame ==
    (call.op = "TrimCurve" /\ ~call.raised) =>
        /\ call.ret # NoneV => \E g \in New : New = {g} /\ call.ret = GuidV(g)
        /\ New = {} => (call.ret = NoneV /\ Lost = {})

(***************************************************************************)
(* C9: JoinCurves returns the sentinel and leaves the document unchanged   *)
(* when it is given fewer than two identifiers or the kernel joins         *)
(* nothing; otherwise it adds the joined curves and returns their          *)
(* identifiers; it deletes only with delete_input, and only input objects  *)
(* that were curves given to the join.                                     *)
(***************************************************************************)
C9_JoinFrame ==
    (call.op = "JoinCurves" /\ ~call.raised) =>
        IF Len(call.args[1].items) < 2 \/ call.kernel <= 0
        THEN call.ret = errorhandler /\ doc = pre
        ELSE /\ call.ret.t = "list"
             /\ call.ret.items = [i \in 1..Len(call.added) |-> GuidV(call.added[i])]
             /\ Len(call.added) = call.kernel
             /\ New = {call.added[i] : i \in 1..Len(call.added)}
             /\ Kept
             /\ Lost # {} => Truthy(call.args[2])
             /\ Lost \subseteq call.took

(***************************************************************************)
(* C10: ExplodeCurves adds one object for each segment of each input curve *)
(* and returns their identifiers in order; with delete_input it removes    *)
(* exactly the inputs exploded into at least one piece, without it none;   *)
(* it returns the sentinel exactly when it added no piece.                 *)
(***************************************************************************)
C10_ExplodeFrame ==
    (call.op = "ExplodeCurves" /\ ~call.raised) =>
        /\ (call.ret = errorhandler) <=> (New = {})
        /\ Cardinality(New) = (IF call.kernel < 0 THEN 0 ELSE call.kernel)
        /\ call.ret # errorhandler =>
              /\ call.ret.t = "list"
              /\ call.ret.items = [i \in 1..Len(call.added) |-> GuidV(call.added[i])]
        /\ Kept
        /\ Lost = (IF Truthy(call.args[2]) THEN call.took ELSE {})

(***************************************************************************)
(* C11: the three boolean functions return the identifiers of all the      *)
(* objects they added, or the sentinel; a call that returns the sentinel   *)
(* has added no object.                                                    *)
(***************************************************************************)
BooleanFunctions ==
    {"CurveBooleanDifference", "CurveBooleanIntersection", "CurveBooleanUnion"}

C11_BooleanFrame ==
    (call.op \in BooleanFunctions /\ ~call.raised) =>
        IF call.ret = errorhandler THEN New = {}
        ELSE /\ call.ret.t = "list"
             /\ {call.ret.items[i].g : i \in 1..Len(call.ret.items)} = New
             /\ \A i \in 1..Len(call.ret.items) : IsGuid(call.ret.items[i])

(***************************************************************************)
(* C12: an in-place modifier returns True exactly when the object curve_id *)
(* names was replaced by the modified curve, and False or the sentinel     *)
(* exactly when the document is as it was.                                 *)
(***************************************************************************)
Modifiers == {"ReverseCurve", "RebuildCurve", "SimplifyCurve", "FairCurve", "CurveSeam"}

C12_ModifierResult ==
    (call.op \in Modifiers /\ ~call.raised) =>
        LET g == coerceguid(call.args[1]) IN
        /\ call.ret \in {BoolV(TRUE), BoolV(FALSE), errorhandler}
        /\ (call.ret = BoolV(TRUE)) <=>
              /\ IsGuid(g) /\ g.g \in DOMAIN pre
              /\ DOMAIN doc = DOMAIN pre
              /\ doc[g.g] = "modified" /\ pre[g.g] # "modified"
              /\ \A x \in DOMAIN pre \ {g.g} : doc[x] = pre[x]
        /\ (call.ret # BoolV(TRUE)) <=> (doc = pre)

(***************************************************************************)
(* C13: ExtendCurve, given the identifier of a document curve, an          *)
(* extension_type in 0..2, a side in 0..1 and a boundary identifier that   *)
(* resolves to a document object, returns curve_id with the curve replaced *)
(* by the extended one, or returns None with the document as it was.       *)
(***************************************************************************)
C13_ExtendResult ==
    LET curve_id == call.args[1]
        g == coerceguid(curve_id)
        bs == coerceguidlist(call.args[4]) IN
    (/\ call.op = "ExtendCurve"
     /\ IsGuid(g) /\ g.g \in DOMAIN pre /\ IsCurveKind(pre[g.g])
     /\ call.args[2].g \in 0..2 /\ call.args[3].g \in 0..1
     /\ bs.t = "list" /\ \E i \in 1..Len(bs.items) : bs.items[i].g \in DOMAIN pre) =>
        /\ ~call.raised
        /\ \/ call.ret = NoneV /\ doc = pre
           \/ /\ call.ret = curve_id
              /\ DOMAIN doc = DOMAIN pre
              /\ doc[g.g] = "modified"
              /\ \A x \in DOMAIN pre \ {g.g} : doc[x] = pre[x]

(***************************************************************************)
(* C14: Distance returns one distance when point2 coerces to a point, the  *)
(* list of the distances to each point, in order, when point2 is a list of *)
(* points, and None, raising nothing, when point1 or point2 cannot be      *)
(* coerced.                                                                *)
(***************************************************************************)
\* the forms of one point (a Point3d, three numbers, the text of three)
IsPointForm(v) ==
    \/ v.t = "pt"
    \/ IsSeqT(v) /\ Len(v.items) = 3 /\ \A i \in 1..3 : IsNum(v.items[i])
    \/ v.t = "str" /\ v.fmt = "csv" /\ Len(v.items) = 3
\* a list, tuple or array of points in those forms
IsPointListForm(v) ==
    /\ IsSeqT(v) \/ v.t = "ptarray"
    /\ Len(v.items) > 0
    /\ \A i \in 1..Len(v.items) : IsPointForm(v.items[i])
\* a flat list of more than three numbers, which coerce3dpointlist reads in
\* threes: the claim names it neither a point nor a list of points
IsFlatNumbers(v) ==
    IsSeqT(v) /\ Len(v.items) > 3 /\ \A i \in 1..Len(v.items) : IsNum(v.items[i])
\* the coordinates of a point in any of its forms
SquaredDistance(a, b) ==
    LET dx == a.items[1].g - b.items[1].g
        dy == a.items[2].g - b.items[2].g
        dz == a.items[3].g - b.items[3].g IN
    dx * dx + dy * dy + dz * dz

C14_DistanceResult ==
    call.op = "Distance" =>
        LET point1 == call.args[1]
            point2 == call.args[2] IN
        /\ ~call.raised
        /\ IF IsPointForm(point1) /\ IsPointForm(point2)
           THEN call.ret = RootV(SquaredDistance(point2, point1))
           ELSE IF IsPointForm(point1) /\ IsPointListForm(point2)
           THEN /\ call.ret.t = "list"
                /\ Len(call.ret.items) = Len(point2.items)
                /\ \A i \in 1..Len(point2.items) :
                     call.ret.items[i] = RootV(SquaredDistance(point2.items[i], point1))
           ELSE IF ~IsPointForm(point1) \/ ~IsFlatNumbers(point2)
           THEN call.ret = NoneV
           ELSE call.ret.t = "list"

(***************************************************************************)
(* C15: SortPoints returns a permutation of the input points in the        *)
(* lexicographic order of the coordinates that order selects (0 XYZ, 1     *)
(* XZY, 2 YXZ, 3 YZX, 4 ZXY, 5 ZYX, anything else XYZ), ascending when     *)
(* ascending is True and descending otherwise; the input list is as it     *)
(* was.                                                                    *)
(***************************************************************************)
\* the coordinates of a point in the sequence order selects
KeyOf(p, o) ==
    LET c == <<p.items[1].g, p.items[2].g, p.items[3].g>>
        perm == CASE o = 1 -> <<1, 3, 2>> [] o = 2 -> <<2, 1, 3>>
                  [] o = 3 -> <<2, 3, 1>> [] o = 4 -> <<3, 1, 2>>
                  [] o = 5 -> <<3, 2, 1>> [] OTHER -> <<1, 2, 3>> IN
    [i \in 1..3 |-> c[perm[i]]]
\* k1 is not after k2 in lexicographic order
LexLeq(k1, k2) ==
    \/ k1 = k2
    \/ \E i \in 1..3 : k1[i] < k2[i] /\ \A j \in 1..(i - 1) : k1[j] = k2[j]
Occurrences(q, x) == Cardinality({i \in 1..Len(q) : q[i] = x})
AllPoint3d(v) ==
    IsSeqT(v) /\ \A i \in 1..Len(v.items) : v.items[i].t = "pt"

====
